---- MODULE Spec2Model ----
(***************************************************************************)
(* Model of the two AKTIN file importers                                   *)
(*   src/generic-file-import-scripts/aktin_nachimporter_ac.py  (diagnoses) *)
(*   src/generic-file-import-scripts/simple_aktin_importer.py  (simple)    *)
(*                                                                         *)
(* Text that the code only concatenates (ids, salt, roots) is a TLA+       *)
(* string.  Text that the code indexes, splits or pattern-matches          *)
(* (source-system tags, diagnosis lists, dates) is a sequence of tokens.   *)
(*                                                                         *)
(* observation_fact is the table as the importer's statements see it.      *)
(* The diagnosis importer works on one connection and never commits;       *)
(* Connection.rollback() puts the table back to committed_fact, the        *)
(* content the connection started from.                                    *)
(***************************************************************************)
EXTENDS Integers, Sequences, FiniteSets, Bags, TLC

VARIABLES
    \* ---- warehouse tables -------------------------------------------
    patient_mapping,      \* set of [patient_ide, patient_num]
    encounter_mapping,    \* set of [encounter_ide, encounter_num, patient_ide]
    patient_dimension,    \* set of [patient_num, birth_date, sex_cd, age_in_years_num]
    visit_dimension,      \* set of [encounter_num, patient_num, start_date]
    observation_fact,     \* bag of fact rows
    committed_fact,       \* observation_fact at the start of the open transaction
    \* ---- diagnosis importer (aktin_nachimporter_ac.py) --------------
    csv,                  \* the rows of the CSV file
    pc,                   \* position of import_csv
    index,                \* loop variable of import_csv (NoIndex: unbound)
    data,                 \* the DiagnoseData of the current row
    enc_num, pat_num,     \* surrogates resolved for the current row
    todo,                 \* diagnoses _insert_observation_entry still has to insert
    imported_num,         \* local counter of _insert_observation_entry
    logger,               \* the Logger singleton's five counters
    error,                \* the exception that ended the run, "" if none
    run,                  \* number of the current run over the file (the import clock)
    \* ---- simple importer (simple_aktin_importer.py) ------------------
    s_csv,                \* the rows of the CSV file
    s_pc,                 \* position of import_csv
    s_index,              \* loop variable of import_csv
    s_data,               \* the PatientData of the current row
    s_pat_num, s_enc_num, \* what the two create_new_entry calls returned
    hw_pat_num,           \* PatientMappingEntryHandler.__pat_num
    hw_enc_num,           \* EncounterMappingEntryHandler.__enc_num
    \* ---- observation of the run (not program state) ------------------
    failures,             \* number of database statements that failed so far
    reads,                \* number of SELECT statements executed so far
    hist,                 \* what past steps did, for stating the properties
    \* ---- calls of the Helper's functions on their own --------------------
    arg,                  \* the arguments
    result                \* what the calls made so far returned

tables   == <<patient_mapping, encounter_mapping, patient_dimension,
              visit_dimension, observation_fact, committed_fact>>
anacVars == <<csv, pc, index, data, enc_num, pat_num, todo, imported_num,
              logger, error, run>>
simpVars == <<s_csv, s_pc, s_index, s_data, s_pat_num, s_enc_num,
              hw_pat_num, hw_enc_num>>
obsVars  == <<failures, reads, hist>>
funVars  == <<arg, result>>
vars     == <<tables, anacVars, simpVars, obsVars, funVars>>

(***************************************************************************)
(* Bounds of the model                                                     *)
(***************************************************************************)
MaxRows == 2          \* rows in a CSV file
MaxInitFacts == 2     \* fact rows in the warehouse before the first run
MaxFailures == 1      \* database statements that fail in one behaviour
MaxUploadFailures == 2  \* the same, in a behaviour of the simple importer
MaxRuns == 2          \* runs of the importer over the same file
MaxCalls == 2         \* calls of a Helper function on its own

(***************************************************************************)
(* Python's None, for each type of value it stands in for                  *)
(***************************************************************************)
None     == <<"<None>">>       \* in place of a token sequence
NoneList == <<None>>           \* in place of a list of token sequences
NoneStr  == "<None>"           \* in place of a string
NoneNum  == -1                 \* in place of a surrogate or a count
NoIndex  == -1                 \* the loop variable before the first iteration

(***************************************************************************)
(* Text helpers                                                            *)
(***************************************************************************)
StartsAt(s, i, sep) ==
    /\ i + Len(sep) - 1 <= Len(s)
    /\ SubSeq(s, i, i + Len(sep) - 1) = sep

\* str.split(sep): the pieces of s between the non-overlapping occurrences
\* of sep, scanned from the left
RECURSIVE split(_, _)
split(s, sep) ==
    LET hits == {i \in 1..Len(s) : StartsAt(s, i, sep)}
    IN  IF hits = {} THEN <<s>>
        ELSE LET i == CHOOSE k \in hits : \A j \in hits : k <= j
             IN  <<SubSeq(s, 1, i - 1)>> \o split(SubSeq(s, i + Len(sep), Len(s)), sep)

\* SQL LIKE: "%" matches any run of characters, "_" any single character
RECURSIVE like(_, _)
like(s, p) ==
    IF p = <<>> THEN s = <<>>
    ELSE IF Head(p) = "%"
         THEN like(s, Tail(p)) \/ (s # <<>> /\ like(Tail(s), p))
         ELSE /\ s # <<>>
              /\ (Head(p) = "_" \/ Head(p) = Head(s))
              /\ like(Tail(s), Tail(p))

(***************************************************************************)
(* Configuration: aktin.properties and the environment                     *)
(***************************************************************************)
pseudonym_salt == "s"                    \* pseudonym.salt
pat_root       == "1.2.276.1"            \* cda.patient.root.preset
enc_root       == "1.2.276.2"            \* cda.encounter.root.preset
script_id      == <<"a">>                \* os.environ['script_id']
script_version == <<"1">>                \* os.environ['script_version']
uuid           == <<"u", "u", "i", "d">> \* os.environ['uuid'] (simple importer)

(***************************************************************************)
(* Helper: pseudonymization                                                *)
(***************************************************************************)
\* The digest is kept symbolic: the text names the composite that was
\* hashed, so equal digests mean equal composites.
hash_composite(composite) == "sha1(" \o composite \o ")"

\* __anonymize_id that leaves the salt out
anonymize_id_unsalted(salt, root, ext) == hash_composite(root \o "/" \o ext)

anonymize_id(salt, root, ext) ==
    LET composite == root \o "/" \o ext
    IN  hash_composite(IF salt # "" THEN salt \o composite ELSE composite)

anonymize_enc(ext) == anonymize_id(pseudonym_salt, enc_root, ext)
anonymize_pat(ext) == anonymize_id(pseudonym_salt, pat_root, ext)

hash_this_filename == hash_composite("aktin_nachimporter_ac.py")

(***************************************************************************)
(* Helper: dates                                                           *)
(***************************************************************************)
ValueError == <<"<ValueError>">>

DigitSeq == <<"0", "1", "2", "3", "4", "5", "6", "7", "8", "9">>
DigitChar(n) == DigitSeq[n + 1]
DigitVal(c) == CHOOSE n \in 0..9 : DigitSeq[n + 1] = c

AllDigits(s) == \A i \in 1..Len(s) : \E n \in 1..10 : DigitSeq[n] = s[i]

RECURSIVE Num(_)
Num(s) == IF s = <<>> THEN 0
          ELSE 10 * Num(SubSeq(s, 1, Len(s) - 1)) + DigitVal(s[Len(s)])

Pad2(n) == <<DigitChar(n \div 10), DigitChar(n % 10)>>

IsLeap(y) == (y % 4 = 0 /\ y % 100 # 0) \/ y % 400 = 0
DaysIn(y, m) ==
    IF m = 2 THEN (IF IsLeap(y) THEN 29 ELSE 28)
    ELSE IF m \in {4, 6, 9, 11} THEN 30 ELSE 31

DateTime(Y, m, d, H, M, S) == [Y |-> Y, m |-> m, d |-> d, H |-> H, M |-> M, S |-> S]
NoDateTime == DateTime(0, 0, 0, 0, 0, 0)

\* the datetime that strptime builds from its fields, NoDateTime where
\* datetime raises ValueError
ValidDateTime(t) ==
    IF /\ t.Y >= 1 /\ t.m \in 1..12 /\ t.d \in 1..DaysIn(t.Y, t.m)
       /\ t.H \in 0..23 /\ t.M \in 0..59 /\ t.S \in 0..59
    THEN t ELSE NoDateTime

\* the two-digit groups of a digit text: century, year, month, day, hour,
\* minute, second; 0 for a group the text is too short for
TwoDigitGroups(date) ==
    [k \in 1..7 |-> IF 2 * k <= Len(date) THEN Num(SubSeq(date, 2 * k - 1, 2 * k)) ELSE 0]

FromGroups(g) == DateTime(100 * g[1] + g[2], g[3], g[4], g[5], g[6], g[7])

\* datetime.strptime with a format of digit fields only: '%Y%m%d',
\* '%Y%m%d%H%M' or '%Y%m%d%H%M%S', chosen by n, the length the format needs.
\* NoDateTime stands for the ValueError.
strptime_digits(date, n) ==
    IF Len(date) # n \/ ~AllDigits(date) THEN NoDateTime
    ELSE ValidDateTime(FromGroups(TwoDigitGroups(date)))

\* datetime.strptime(date, '%d.%m.%Y %H:%M:%S') on a text of length 19: the
\* separators in their places, and the digit fields read as year, month,
\* day, hour, minute, second
strptime_dotted(date) ==
    IF \/ Len(date) # 19
       \/ date[3] # "." \/ date[6] # "." \/ date[11] # " "
       \/ date[14] # ":" \/ date[17] # ":"
    THEN NoDateTime
    ELSE strptime_digits(SubSeq(date, 7, 10) \o SubSeq(date, 4, 5) \o SubSeq(date, 1, 2)
                         \o SubSeq(date, 12, 13) \o SubSeq(date, 15, 16)
                         \o SubSeq(date, 18, 19), 14)

\* strftime('%Y-%m-%d %H:%M:%S') (years from 1000 on, which every platform
\* prints with four digits)
fmt_seconds(t) ==
    Pad2(t.Y \div 100) \o Pad2(t.Y % 100) \o <<"-">> \o Pad2(t.m) \o <<"-">> \o Pad2(t.d)
    \o <<" ">> \o Pad2(t.H) \o <<":">> \o Pad2(t.M) \o <<":">> \o Pad2(t.S)

\* strftime with the format that goes with an input of n characters:
\* '%Y-%m-%d' for 8, '%Y-%m-%d %H:%M' for 12, '%Y-%m-%d %H:%M:%S' otherwise;
\* each is the beginning of the longest.  A failed strptime raises.
strftime(t, n) ==
    IF t = NoDateTime THEN ValueError
    ELSE SubSeq(fmt_seconds(t), 1, IF n = 8 THEN 10 ELSE IF n = 12 THEN 16 ELSE 19)

\* hour_24 that rewrites nothing
hour_24_unchanged(date) == date

\* date[8:10] == '24': date = ''.join([date[:8], '2359'])
hour_24(date) ==
    IF Len(date) = 12 /\ SubSeq(date, 9, 10) = <<"2", "4">>
    THEN SubSeq(date, 1, 8) \o <<"2", "3", "5", "9">>
    ELSE date

\* Helper.convert_date_to_i2b2_format of aktin_nachimporter_ac.py
convert_date_to_i2b2_format(date) ==
    IF Len(date) \in {8, 12, 14}
    THEN strftime(strptime_digits(hour_24(date), Len(date)), Len(date))
    ELSE IF Len(date) = 19
         THEN strftime(strptime_dotted(date), 19)
         ELSE ValueError

(***************************************************************************)
(* Diagnosis importer: DiagnoseData and the column handlers                *)
(***************************************************************************)
\* DiagnoseData.__init__
DiagnoseData == [pat_ide |-> NoneStr, enc_ide |-> NoneStr,
                 diagnoses |-> NoneList, start_date_time |-> None]

\* is_valid that does not look at the admission timestamp
is_valid_without_date(d) ==
    /\ d.pat_ide # NoneStr
    /\ d.enc_ide # NoneStr
    /\ d.diagnoses # NoneList

\* DiagnoseData.is_valid: no attribute is None
is_valid(d) ==
    /\ d.pat_ide # NoneStr
    /\ d.enc_ide # NoneStr
    /\ d.diagnoses # NoneList
    /\ d.start_date_time # None

\* DiagnoseData.set_diagnoses
set_diagnoses(d, diagnoses_raw) ==
    [d EXCEPT !.diagnoses = split(diagnoses_raw, <<";", " ">>)]

EncounterIDHandler(d, row) ==
    LET val == row.Aufnahmenummer
    IN  [d EXCEPT !.enc_ide = IF val # NoneStr THEN anonymize_enc(val) ELSE NoneStr]

PatientIDHandler(d, row) ==
    LET val == row.Patientennummer
    IN  [d EXCEPT !.pat_ide = IF val # NoneStr THEN anonymize_pat(val) ELSE NoneStr]

EndICDHandler(d, row) ==
    LET val == row.Entlassdiagnosen
    IN  IF val # None THEN set_diagnoses(d, val) ELSE d

StartICDHandler(d, row) ==
    LET val == row.Aufnahmediagnosen
    IN  IF val # None THEN set_diagnoses(d, val) ELSE d

\* the tail of StartDateTimeHandler._process_column: a date that was absent
\* or raised ValueError sets nothing
set_start_datetime(d, admission_date) ==
    IF admission_date # None /\ admission_date # ValueError
    THEN [d EXCEPT !.start_date_time = admission_date]
    ELSE d

StartDateTimeHandler(d, row) ==
    set_start_datetime(d, IF row.Aufnahmedatumuhrzeit = None THEN None
                          ELSE convert_date_to_i2b2_format(row.Aufnahmedatumuhrzeit))

\* PatientDataColumnHandler._process_column, by handler class
_process_column(handler, d, row) ==
    CASE handler = "EncounterIDHandler"   -> EncounterIDHandler(d, row)
      [] handler = "PatientIDHandler"     -> PatientIDHandler(d, row)
      [] handler = "StartDateTimeHandler" -> StartDateTimeHandler(d, row)
      [] handler = "EndICDHandler"        -> EndICDHandler(d, row)
      [] handler = "StartICDHandler"      -> StartICDHandler(d, row)

\* AktinImporter.__init_pipeline: each handler is constructed with the
\* handler constructed before it as its successor, and the handler
\* constructed last is returned as the head of the chain
successor ==
    [h \in {"EncounterIDHandler", "PatientIDHandler", "StartDateTimeHandler",
            "EndICDHandler", "StartICDHandler"} |->
        CASE h = "EncounterIDHandler"   -> "None"
          [] h = "PatientIDHandler"     -> "EncounterIDHandler"
          [] h = "StartDateTimeHandler" -> "PatientIDHandler"
          [] h = "EndICDHandler"        -> "StartDateTimeHandler"
          [] h = "StartICDHandler"      -> "EndICDHandler"]
__init_pipeline == "StartICDHandler"

\* PatientDataColumnHandler.update_pat_from_row: the handler's own column
\* first, then the successor's
RECURSIVE update_pat_from_row(_, _, _)
update_pat_from_row(handler, d, row) ==
    LET d2 == _process_column(handler, d, row)
    IN  IF successor[handler] # "None"
        THEN update_pat_from_row(successor[handler], d2, row)
        ELSE d2

\* the order in which the chain's handlers process a row
RECURSIVE chain_order(_)
chain_order(handler) ==
    IF successor[handler] = "None" THEN <<handler>>
    ELSE <<handler>> \o chain_order(successor[handler])

(***************************************************************************)
(* Diagnosis importer: the fact table                                      *)
(***************************************************************************)
Tag(id, version) ==
    <<"g", "f", "i", "_">> \o id \o <<"V">> \o version \o <<"_">> \o <<hash_this_filename>>

\* ObservationFactEntryHandler.__init__
_sourcesystem_cd  == Tag(script_id, script_version)
_sourcesystem_sub == split(_sourcesystem_cd, <<"V">>)[1]

BagFilter(B, P(_)) == [r \in {x \in DOMAIN B : P(x)} |-> B[r]]

\* delete_matches with the tag test turned around: rows of every other tag
delete_matches_other_tags(r, enc) ==
    /\ r.encounter_num = enc
    /\ r.sourcesystem_cd # _sourcesystem_cd

\* delete_matches without the tag test: every row of the encounter
delete_matches_any_tag(r, enc) ==
    r.encounter_num = enc

\* the WHERE clause of _remove_observation_entry's DELETE
delete_matches(r, enc) ==
    /\ r.encounter_num = enc
    /\ like(r.sourcesystem_cd, _sourcesystem_sub \o <<"%">>)

\* the table after the DELETE
_remove_observation_entry(fact, enc) ==
    BagFilter(fact, LAMBDA r : ~delete_matches(r, enc))

\* len(result.fetchall()): the number of rows the DELETE returned
deleted_rows(fact, enc) ==
    BagCardinality(BagFilter(fact, LAMBDA r : delete_matches(r, enc)))

\* the row one iteration of _insert_observation_entry inserts
fact_row(enc, pat, diagnose, start_date, import_date) ==
    [encounter_num |-> enc, patient_num |-> pat,
     concept_cd |-> <<"ICD10GM:">> \o diagnose,
     sourcesystem_cd |-> _sourcesystem_cd,
     import_date |-> import_date, start_date |-> start_date]

\* __check_if_observation_exists that finds every encounter
__check_if_observation_exists_always(fact, enc) == TRUE

\* ObservationFactEntryHandler.__check_if_observation_exists
__check_if_observation_exists(fact, enc) ==
    \E r \in DOMAIN fact : r.encounter_num = enc

\* EncounterMappingEntryHandler.get_encounter_num_for_ide
get_encounter_num_for_ide(enc_ide) ==
    IF \E m \in encounter_mapping : m.encounter_ide = enc_ide
    THEN (CHOOSE m \in encounter_mapping : m.encounter_ide = enc_ide).encounter_num
    ELSE NoneNum

\* PatientMappingEntryHandler.get_patient_num_for_ide
get_patient_num_for_ide(pat_ide) ==
    IF \E m \in patient_mapping : m.patient_ide = pat_ide
    THEN (CHOOSE m \in patient_mapping : m.patient_ide = pat_ide).patient_num
    ELSE NoneNum

(***************************************************************************)
(* The warehouse before the first run, and the CSV files                   *)
(***************************************************************************)
D12   == <<"2", "0", "2", "4", "0", "1", "1", "5", "1", "0", "3", "0">>
DISO  == <<"2", "0", "2", "4", "-", "0", "1", "-", "1", "5", " ",
           "1", "0", ":", "3", "0", ":", "0", "0">>
DPrev == <<"2", "0", "2", "3", "-", "1", "2", "-", "3", "1", " ", "0", "8", ":", "0", "0">>

A01B02 == <<"A01", ";", " ", "B02">>
A01A01 == <<"A01", ";", " ", "A01">>
X1     == <<"X1">>
X2     == <<"X2">>

AnacRow(enc, pat, date, discharge, admission) ==
    [Aufnahmenummer |-> enc, Patientennummer |-> pat, Aufnahmedatumuhrzeit |-> date,
     Entlassdiagnosen |-> discharge, Aufnahmediagnosen |-> admission]

AnacRows ==
    { AnacRow("E1", "P1", D12, A01B02, None),    \* two discharge diagnoses
      AnacRow("E1", "P1", D12, X1, X2),          \* both diagnosis columns
      AnacRow("E2", "P2", D12, None, X2),        \* another encounter
      AnacRow("E2", "P2", D12, A01A01, None),    \* one diagnosis named twice
      AnacRow("E1", "P2", D12, X1, None),        \* encounter of P1 under the id of P2
      AnacRow("E3", "P1", D12, X1, None),        \* encounter without mapping
      AnacRow("E1", "P1", D12, None, None),      \* no diagnosis
      AnacRow(NoneStr, "P1", D12, X1, None),     \* no encounter id
      AnacRow("E1", NoneStr, D12, X1, None),     \* no patient id
      AnacRow("E1", "P1", None, X1, None),       \* no admission timestamp
      AnacRow("E1", "P1", DISO, X1, None) }      \* timestamp in a format not converted

AnacFiles == UNION {[1..n -> AnacRows] : n \in 0..MaxRows}

InitPatientMapping ==
    { [patient_ide |-> anonymize_pat("P1"), patient_num |-> 1],
      [patient_ide |-> anonymize_pat("P2"), patient_num |-> 2] }
InitEncounterMapping ==
    { [encounter_ide |-> anonymize_enc("E1"), encounter_num |-> 1,
       patient_ide |-> anonymize_pat("P1")],
      [encounter_ide |-> anonymize_enc("E2"), encounter_num |-> 2,
       patient_ide |-> anonymize_pat("P2")] }
EncNums == {m.encounter_num : m \in InitEncounterMapping}

\* source-system tags found in the warehouse before the run
OldVersionTag == Tag(script_id, <<"0">>)              \* this importer, earlier version
LongerIdTag   == Tag(script_id \o <<"b">>, <<"1">>)   \* importer whose id begins with this id
WildcardTag   == <<"g", "f", "i", "x">> \o script_id \o <<"V", "1">>  \* differs where the pattern has "_"
OtherTag      == Tag(<<"z">>, <<"1">>)                \* importer with an unrelated id

PriorFact(enc, pat, code, tag) ==
    [encounter_num |-> enc, patient_num |-> pat, concept_cd |-> code,
     sourcesystem_cd |-> tag, import_date |-> 0, start_date |-> DPrev]

PriorFacts ==
    { PriorFact(1, 1, <<"ICD10GM:", "A01">>, _sourcesystem_cd),
      PriorFact(1, 1, <<"ICD10GM:", "Z99">>, OldVersionTag),
      PriorFact(1, 1, <<"ICD10GM:", "Z98">>, LongerIdTag),
      PriorFact(1, 1, <<"ICD10GM:", "Z97">>, WildcardTag),
      PriorFact(1, 1, <<"ESI", ":", "3">>, uuid),
      PriorFact(2, 2, <<"ICD10GM:", "Z96">>, OtherTag) }

InitFactTables ==
    {SetToBag(S) : S \in {T \in SUBSET PriorFacts : Cardinality(T) <= MaxInitFacts}}

NewLogger == [csv_encounters |-> 0, invalid_encounters |-> 0, successful_insert |-> 0,
              new_imported |-> 0, updated |-> 0]

NewHist(fact) ==
    [init_fact   |-> fact,        \* the fact table before the first run
     first_fact  |-> EmptyBag,    \* the fact table at the end of the first run
     before      |-> EmptyBag,    \* the fact table when the current reconciliation began
     deleted     |-> NoneNum,     \* rows the current reconciliation's DELETE removed
     insert_failed |-> FALSE,     \* an INSERT of the current reconciliation failed
     reconciled  |-> FALSE,       \* _update_table_entry has just returned
     last_ok     |-> [e \in EncNums |-> {}],  \* per encounter, the codes its latest
                                              \* reconciliation inserted successfully
     returned    |-> {},          \* <<kind, ide, surrogate>> returned by create_new_entry
     chain       |-> <<>>,        \* the simple importer's handlers that processed the
                                  \* current row, each with whether it raised
     init_patient_mapping   |-> patient_mapping,    \* the mapping tables before
     init_encounter_mapping |-> encounter_mapping,  \* the first run
     first_failures |-> NoneNum,  \* statements that had failed when the first run ended
     startup_nums |->             \* the surrogates in the mapping tables when the
         [patient   |-> {m.patient_num : m \in patient_mapping},       \* current run
          encounter |-> {m.encounter_num : m \in encounter_mapping}],  \* started
     allocated   |-> <<>>,        \* <<kind, ide, surrogate>> newly allocated in the
                                  \* current run, in the order of allocation
     new_beyond  |-> 0]           \* over the current run's reconciliations, the rows
                                  \* each inserted beyond the number it deleted

\* no call of a Helper function on its own
HelperIdle == arg = NoneStr /\ result = <<>>

SimpleIdle ==
    /\ s_csv = <<>> /\ s_pc = "idle" /\ s_index = NoIndex
    /\ s_data = NoneStr /\ s_pat_num = NoneNum /\ s_enc_num = NoneNum
    /\ hw_pat_num = 0 /\ hw_enc_num = 0

InitAnac ==
    /\ patient_mapping = InitPatientMapping
    /\ encounter_mapping = InitEncounterMapping
    /\ patient_dimension = {}
    /\ visit_dimension = {}
    /\ observation_fact \in InitFactTables
    /\ committed_fact = observation_fact
    /\ csv \in AnacFiles
    /\ pc = "init" /\ index = NoIndex /\ data = DiagnoseData
    /\ enc_num = NoneNum /\ pat_num = NoneNum
    /\ todo = <<>> /\ imported_num = 0
    /\ logger = NewLogger /\ error = "" /\ run = 1
    /\ SimpleIdle
    /\ HelperIdle
    /\ failures = 0 /\ reads = 0
    /\ hist = NewHist(observation_fact)

(***************************************************************************)
(* Diagnosis importer: AktinImporter.import_csv                            *)
(***************************************************************************)
CanFail == failures < MaxFailures

\* AktinImporter.__init__: the handlers of the pipeline construct the Helper,
\* which exits when the properties file is not there
AktinImporter_init ==
    /\ pc = "init"
    /\ \E outcome \in {"", "SystemExit"} :
          /\ error' = outcome
          /\ pc' = IF outcome = "" THEN "connect" ELSE "fatal"
    /\ UNCHANGED <<tables, csv, index, data, enc_num, pat_num, todo, imported_num, logger,
                   run, simpVars, obsVars>>
    /\ UNCHANGED funVars

\* import_csv up to its loop, going on whatever the outcome
import_csv_connect_unchecked ==
    /\ pc = "connect"
    /\ \E outcome \in {"", "KeyError", "OperationalError", "NoSuchTableError"} :
          /\ error' = outcome
          /\ pc' = "loop"
    /\ UNCHANGED <<tables, csv, index, data, enc_num, pat_num, todo, imported_num, logger,
                   run, simpVars, obsVars>>
    /\ UNCHANGED funVars

\* import_csv up to its loop: DatabaseConnection() reads the credentials from
\* the environment, connect() opens the connection and the three table
\* handlers reflect their tables
import_csv_connect ==
    /\ pc = "connect"
    /\ \E outcome \in {"", "KeyError", "OperationalError", "NoSuchTableError"} :
          /\ error' = outcome
          /\ pc' = IF outcome = "" THEN "loop" ELSE "fatal"
    /\ UNCHANGED <<tables, csv, index, data, enc_num, pat_num, todo, imported_num, logger,
                   run, simpVars, obsVars>>
    /\ UNCHANGED funVars

\* the loop body for a row whose DiagnoseData is not valid
import_csv_invalid_row ==
    /\ pc = "loop" /\ index + 1 < Len(csv)
    /\ LET d == update_pat_from_row(__init_pipeline, DiagnoseData, csv[index + 2])
       IN  /\ ~is_valid(d)
           /\ data' = d
    /\ index' = index + 1
    /\ logger' = [logger EXCEPT !.invalid_encounters = @ + 1]
    /\ hist' = [hist EXCEPT !.reconciled = FALSE]
    /\ UNCHANGED <<tables, csv, pc, enc_num, pat_num, todo, imported_num, error, run,
                   simpVars, failures, reads>>
    /\ UNCHANGED funVars

\* the loop body for a valid row, up to the decision of update_entries_if_exist
import_csv_valid_row ==
    /\ pc = "loop" /\ index + 1 < Len(csv)
    /\ LET d == update_pat_from_row(__init_pipeline, DiagnoseData, csv[index + 2])
           e == get_encounter_num_for_ide(d.enc_ide)
           p == get_patient_num_for_ide(d.pat_ide)
           resolved == e # NoneNum /\ p # NoneNum
           exists == resolved /\ __check_if_observation_exists(observation_fact, e)
       IN  /\ is_valid(d)
           /\ data' = d /\ enc_num' = e /\ pat_num' = p
           /\ reads' = reads + (IF resolved THEN 3 ELSE 2)
           /\ IF exists
              THEN /\ logger' = [logger EXCEPT !.successful_insert = @ + 1]
                   /\ pc' = "remove"
                   /\ hist' = [hist EXCEPT !.before = observation_fact, !.deleted = NoneNum,
                                           !.insert_failed = FALSE, !.reconciled = FALSE]
              ELSE /\ UNCHANGED <<logger, pc>>
                   /\ hist' = [hist EXCEPT !.reconciled = FALSE]
    /\ index' = index + 1
    /\ UNCHANGED <<tables, csv, todo, imported_num, error, run, simpVars, failures>>
    /\ UNCHANGED funVars

\* a SELECT of the loop body (mapping lookup or existence check) fails:
\* nothing catches the exception and it ends import_csv
import_csv_lookup_fails ==
    /\ pc = "loop" /\ index + 1 < Len(csv)
    /\ CanFail
    /\ LET d == update_pat_from_row(__init_pipeline, DiagnoseData, csv[index + 2])
       IN  /\ is_valid(d)
           /\ data' = d
    /\ index' = index + 1
    /\ reads' = reads + 1
    /\ failures' = failures + 1
    /\ pc' = "aborted" /\ error' = "SQLAlchemyError"
    /\ hist' = [hist EXCEPT !.reconciled = FALSE]
    /\ UNCHANGED <<tables, csv, enc_num, pat_num, todo, imported_num, logger, run, simpVars>>
    /\ UNCHANGED funVars

\* _update_table_entry, first half: the DELETE succeeds
_update_table_entry_remove ==
    /\ pc = "remove"
    /\ LET count_removed_diagnoses == deleted_rows(observation_fact, enc_num)
       IN  /\ observation_fact' = _remove_observation_entry(observation_fact, enc_num)
           /\ logger' = [logger EXCEPT !.updated = @ + count_removed_diagnoses]
           /\ hist' = [hist EXCEPT !.deleted = count_removed_diagnoses,
                                   !.last_ok[enc_num] = {}]
    /\ todo' = data.diagnoses
    /\ imported_num' = 0
    /\ pc' = "insert"
    /\ UNCHANGED <<patient_mapping, encounter_mapping, patient_dimension, visit_dimension,
                   committed_fact, csv, index, data, enc_num, pat_num, error, run,
                   simpVars, failures, reads>>
    /\ UNCHANGED funVars

\* _update_table_entry, first half: the DELETE fails.  _remove_observation_entry
\* rolls back and returns nothing, and adding None to the updated count raises
_update_table_entry_remove_fails ==
    /\ pc = "remove"
    /\ CanFail
    /\ failures' = failures + 1
    /\ observation_fact' = committed_fact
    /\ pc' = "aborted" /\ error' = "TypeError"
    /\ UNCHANGED <<patient_mapping, encounter_mapping, patient_dimension, visit_dimension,
                   committed_fact, csv, index, data, enc_num, pat_num, todo, imported_num,
                   logger, run, simpVars, reads, hist>>
    /\ UNCHANGED funVars

\* one iteration of _insert_observation_entry's loop: the INSERT succeeds
_insert_observation_entry_ok ==
    /\ pc = "insert" /\ todo # <<>>
    /\ LET row == fact_row(enc_num, pat_num, Head(todo), data.start_date_time, run)
       IN  /\ observation_fact' = observation_fact (+) SetToBag({row})
           /\ hist' = [hist EXCEPT !.last_ok[enc_num] = @ \cup {row.concept_cd}]
    /\ imported_num' = imported_num + 1
    /\ todo' = Tail(todo)
    /\ UNCHANGED <<patient_mapping, encounter_mapping, patient_dimension, visit_dimension,
                   committed_fact, csv, pc, index, data, enc_num, pat_num, logger, error,
                   run, simpVars, failures, reads>>
    /\ UNCHANGED funVars

\* one iteration of _insert_observation_entry's loop: the INSERT fails and
\* the connection is rolled back
_insert_observation_entry_fails ==
    /\ pc = "insert" /\ todo # <<>>
    /\ CanFail
    /\ failures' = failures + 1
    /\ observation_fact' = committed_fact
    /\ hist' = [hist EXCEPT !.insert_failed = TRUE]
    /\ todo' = Tail(todo)
    /\ UNCHANGED <<patient_mapping, encounter_mapping, patient_dimension, visit_dimension,
                   committed_fact, csv, pc, index, data, enc_num, pat_num, imported_num,
                   logger, error, run, simpVars, reads>>
    /\ UNCHANGED funVars

\* _insert_observation_entry returns; _update_table_entry counts the inserts
_update_table_entry_return ==
    /\ pc = "insert" /\ todo = <<>>
    /\ logger' = [logger EXCEPT !.new_imported = @ + imported_num]
    /\ pc' = "loop"
    /\ hist' = [hist EXCEPT !.reconciled = TRUE,
                            !.new_beyond = @ + (IF imported_num > hist.deleted
                                                THEN imported_num - hist.deleted ELSE 0)]
    /\ UNCHANGED <<tables, csv, index, data, enc_num, pat_num, todo, imported_num, error,
                   run, simpVars, failures, reads>>
    /\ UNCHANGED funVars

\* after the loop: the row count, the summary, disconnect
import_csv_summary ==
    /\ pc = "loop" /\ index + 1 = Len(csv) /\ index # NoIndex
    /\ logger' = [logger EXCEPT !.csv_encounters = index + 1]
    /\ pc' = "done"
    /\ hist' = [hist EXCEPT !.reconciled = FALSE,
                            !.first_fact = IF run = 1 THEN observation_fact ELSE @]
    /\ UNCHANGED <<tables, csv, index, data, enc_num, pat_num, todo, imported_num, error,
                   run, simpVars, failures, reads>>
    /\ UNCHANGED funVars

\* after the loop over a file without data rows: index was never bound
import_csv_no_rows ==
    /\ pc = "loop" /\ Len(csv) = 0
    /\ pc' = "aborted" /\ error' = "UnboundLocalError"
    /\ UNCHANGED <<tables, csv, index, data, enc_num, pat_num, todo, imported_num, logger,
                   run, simpVars, obsVars>>
    /\ UNCHANGED funVars

\* the summary's 'davon update' and 'davon neu'
davon_update == logger.updated
davon_neu == logger.new_imported - logger.updated

\* the importer is started again on the same file: new process, new
\* connection, new Logger
import_csv_again ==
    /\ pc \in {"done", "aborted"} /\ run < MaxRuns
    /\ run' = run + 1
    /\ committed_fact' = observation_fact
    /\ pc' = "init" /\ index' = NoIndex /\ data' = DiagnoseData
    /\ enc_num' = NoneNum /\ pat_num' = NoneNum
    /\ todo' = <<>> /\ imported_num' = 0
    /\ logger' = NewLogger /\ error' = ""
    /\ hist' = [hist EXCEPT !.first_fact = IF run = 1 /\ pc = "aborted"
                                           THEN observation_fact ELSE @,
                            !.new_beyond = 0]
    /\ UNCHANGED <<patient_mapping, encounter_mapping, patient_dimension, visit_dimension,
                   observation_fact, csv, simpVars, failures, reads>>
    /\ UNCHANGED funVars

NextAnac ==
    \/ AktinImporter_init
    \/ import_csv_connect
    \/ import_csv_invalid_row
    \/ import_csv_valid_row
    \/ import_csv_lookup_fails
    \/ _update_table_entry_remove
    \/ _update_table_entry_remove_fails
    \/ _insert_observation_entry_ok
    \/ _insert_observation_entry_fails
    \/ _update_table_entry_return
    \/ import_csv_summary
    \/ import_csv_no_rows
    \/ import_csv_again

SpecAnac == InitAnac /\ [][NextAnac]_vars

(***************************************************************************)
(* Properties of the diagnosis importer                                    *)
(***************************************************************************)
Strip(r) == [f \in DOMAIN r \ {"import_date"} |-> r[f]]

\* the fact rows without their import timestamp, with multiplicities
StripBag(B) ==
    [s \in {Strip(r) : r \in DOMAIN B} |->
        BagCardinality(BagFilter(B, LAMBDA r : Strip(r) = s))]

\* number of fact rows of encounter e that satisfy P
CountRows(B, e, P(_)) ==
    BagCardinality(BagFilter(B, LAMBDA r : r.encounter_num = e /\ P(r)))

OwnTag(r) == r.sourcesystem_cd = _sourcesystem_cd
AnyRow(r) == TRUE

\* every row of the first table is in the second at least as often
KeptRows(before, after, P(_)) ==
    \A r \in DOMAIN before : P(r) => CopiesIn(r, after) >= CopiesIn(r, before)

OtherImporterTags == {LongerIdTag, WildcardTag, OtherTag, uuid}

\* C2: rows that another importer wrote are never removed from the fact
\* table, and after a failure-free reconciliation the row's diagnoses are in
\* the table under this importer's tag.
C2_OtherImportersRowsKept ==
    /\ KeptRows(hist.init_fact, observation_fact,
                LAMBDA r : r.sourcesystem_cd \in OtherImporterTags)
    /\ (hist.reconciled /\ failures = 0) =>
          \A i \in 1..Len(data.diagnoses) :
              CountRows(observation_fact, enc_num,
                        LAMBDA r : OwnTag(r) /\ r.concept_cd = <<"ICD10GM:">> \o data.diagnoses[i]) >= 1

\* C3 as stated: rows whose tag differs from the current tag, another version
\* of this importer included, are never removed.
C3_OtherTagsRowsKept ==
    KeptRows(hist.init_fact, observation_fact, LAMBDA r : ~OwnTag(r))

\* C3: rows whose tag does not match this importer's pattern (the tag up to
\* its version, followed by anything) are never removed.
C3_RowsOutsidePatternKept ==
    KeptRows(hist.init_fact, observation_fact,
             LAMBDA r : ~like(r.sourcesystem_cd, _sourcesystem_sub \o <<"%">>))

\* C3 witness: a reconciliation deleted rows of an encounter that also has a
\* row outside the pattern.
C3_Witness ==
    /\ hist.reconciled /\ hist.deleted > 0
    /\ \E r \in DOMAIN hist.init_fact :
          /\ r.encounter_num = enc_num
          /\ ~like(r.sourcesystem_cd, _sourcesystem_sub \o <<"%">>)
          /\ CopiesIn(r, observation_fact) >= 1

Position(seq, x) == CHOOSE i \in 1..Len(seq) : seq[i] = x

\* C4: the admission handler comes after the discharge handler in the chain,
\* and a row with both diagnosis columns ends with the admission diagnoses.
C4_AdmissionOverridesDischarge ==
    index # NoIndex =>
        LET row == csv[index + 1]
        IN  (row.Entlassdiagnosen # None /\ row.Aufnahmediagnosen # None) =>
                /\ Position(chain_order(__init_pipeline), "StartICDHandler")
                      > Position(chain_order(__init_pipeline), "EndICDHandler")
                /\ data.diagnoses = split(row.Aufnahmediagnosen, <<";", " ">>)

\* C7: when a reconciliation's DELETE succeeded and one of its INSERTs
\* failed, the encounter has no fewer rows than before the DELETE, at least
\* one row, and the table is the one from before the DELETE (nothing took
\* effect; with a failed INSERT not everything can have).
C7_DeleteInsertAtomic ==
    (hist.reconciled /\ hist.deleted # NoneNum /\ hist.insert_failed) =>
        /\ CountRows(observation_fact, enc_num, AnyRow)
              >= CountRows(hist.before, enc_num, AnyRow)
        /\ CountRows(observation_fact, enc_num, AnyRow) > 0
        /\ observation_fact = hist.before

\* C8: at the end of a run, every diagnosis whose INSERT succeeded in the
\* latest reconciliation of its encounter is in the fact table.
C8_SiblingRowsSurvive ==
    pc = "done" =>
        \A e \in EncNums : \A c \in hist.last_ok[e] :
            CountRows(observation_fact, e, LAMBDA r : OwnTag(r) /\ r.concept_cd = c) >= 1

\* C9: no failed database statement of a row's processing ends the run.
C9_RowErrorsNeverAbort ==
    ~(pc = "aborted" /\ error \in {"SQLAlchemyError", "TypeError"})

\* a row without a usable encounter id, patient id, admission timestamp or
\* diagnosis
MissingRequired(row) ==
    \/ row.Aufnahmenummer = NoneStr
    \/ row.Patientennummer = NoneStr
    \/ row.Aufnahmedatumuhrzeit = None
    \/ convert_date_to_i2b2_format(row.Aufnahmedatumuhrzeit) = ValueError
    \/ (row.Entlassdiagnosen = None /\ row.Aufnahmediagnosen = None)

\* C10: processing a row that misses a required value leaves the draft
\* invalid, adds exactly one to the invalid counter, executes no SELECT and
\* changes no table.
C10_InvalidRowRejected ==
    [][(pc = "loop" /\ index + 1 < Len(csv) /\ MissingRequired(csv[index + 2])) =>
          /\ ~is_valid(data')
          /\ logger'.invalid_encounters = logger.invalid_encounters + 1
          /\ reads' = reads
          /\ UNCHANGED tables
          /\ pc' = "loop"]_vars

\* C10 witness: a row with an admission timestamp that is present but not
\* convertible has been rejected.
C10_Witness ==
    /\ index # NoIndex
    /\ csv[index + 1].Aufnahmedatumuhrzeit = DISO
    /\ ~is_valid(data)
    /\ logger.invalid_encounters >= 1

\* the row has all required values, both its ids have a surrogate in the
\* mapping tables and the fact table has a row of the encounter's surrogate
EncounterPresent(row) ==
    /\ ~MissingRequired(row)
    /\ get_patient_num_for_ide(anonymize_pat(row.Patientennummer)) # NoneNum
    /\ get_encounter_num_for_ide(anonymize_enc(row.Aufnahmenummer)) # NoneNum
    /\ \E r \in DOMAIN observation_fact :
          r.encounter_num = get_encounter_num_for_ide(anonymize_enc(row.Aufnahmenummer))

\* C12: a row starts a reconciliation only if both its surrogates resolve
\* and the encounter has a fact row; otherwise the row leaves the fact table
\* and the matched counter as they are; and the fact table changes only
\* inside a reconciliation.
C12_EncounterPresenceGate ==
    [][/\ (pc = "loop" /\ index + 1 < Len(csv)) =>
             /\ pc' = "remove" => EncounterPresent(csv[index + 2])
             /\ ~EncounterPresent(csv[index + 2]) =>
                   /\ observation_fact' = observation_fact
                   /\ logger'.successful_insert = logger.successful_insert
       /\ observation_fact' # observation_fact => pc \in {"remove", "insert"}]_vars

\* C12 witness: a run is through a file with a row whose encounter has a
\* surrogate but no fact row, and one whose encounter has no surrogate; no
\* row was matched and the fact table is the one the run started from.
C12_Witness ==
    /\ pc = "done" /\ run = 1
    /\ csv = <<AnacRow("E2", "P2", D12, None, X2), AnacRow("E3", "P1", D12, X1, None)>>
    /\ hist.init_fact # EmptyBag
    /\ logger.successful_insert = 0
    /\ observation_fact = hist.init_fact

(***************************************************************************)
(* Simple importer: PatientData and the column handlers                    *)
(***************************************************************************)
NaN    == <<"<nan>">>     \* what pandas yields for an empty cell
NaNStr == "nan"           \* str() of it
NoDate == <<"<None>">>

\* PatientData.__init__
PatientData(idx) ==
    [index |-> idx, admission_date |-> None, pat_ide |-> NoneStr, enc_ide |-> NoneStr,
     birth_date |-> None, age |-> NoneNum, sex |-> NoneStr, assessment |-> None,
     assessment_date |-> None, first_contact |-> None]

\* what update_pat_from_row returns when a handler raised
NoPatientData == PatientData(NoneNum)

\* Helper.convert_date_to_i2b2_format of simple_aktin_importer.py; an empty
\* cell has no len() and raises as well
s_convert_date_to_i2b2_format(date) ==
    IF date # NaN /\ Len(date) \in {8, 12, 14}
    THEN strftime(strptime_digits(hour_24(date), Len(date)), Len(date))
    ELSE ValueError

\* datetime.strptime(text, '%Y-%m-%d %H:%M')
strptime_minutes(text) ==
    IF \/ Len(text) # 16
       \/ text[5] # "-" \/ text[8] # "-" \/ text[11] # " " \/ text[14] # ":"
    THEN NoDateTime
    ELSE strptime_digits(SubSeq(text, 1, 4) \o SubSeq(text, 6, 7) \o SubSeq(text, 9, 10)
                         \o SubSeq(text, 12, 13) \o SubSeq(text, 15, 16), 12)

\* datetime + timedelta(seconds = n) for n >= 0
RECURSIVE add_days(_, _)
add_days(t, n) ==
    IF n = 0 THEN t
    ELSE IF t.d < DaysIn(t.Y, t.m) THEN add_days([t EXCEPT !.d = @ + 1], n - 1)
    ELSE IF t.m < 12 THEN add_days([t EXCEPT !.d = 1, !.m = @ + 1], n - 1)
    ELSE add_days([t EXCEPT !.d = 1, !.m = 1, !.Y = @ + 1], n - 1)

add_seconds(t, n) ==
    add_days([t EXCEPT !.H = (((t.H * 60 + t.M) * 60 + t.S + n) % 86400) \div 3600,
                       !.M = (((t.H * 60 + t.M) * 60 + t.S + n) % 3600) \div 60,
                       !.S = (t.S + n) % 60],
             ((t.H * 60 + t.M) * 60 + t.S + n) \div 86400)

\* a setter of PatientData, reached only when the handler's conversion did
\* not raise; each handler yields the updated PatientData, or NoPatientData
\* where the code raises
set_or_raise(d, field, value) ==
    IF value = ValueError THEN NoPatientData ELSE [d EXCEPT ![field] = value]

AdmissionDateHandler(d, row) ==
    set_or_raise(d, "admission_date", s_convert_date_to_i2b2_format(row.AUFNAHME_DATUM))

EncounterIdHandler(d, row) ==
    [d EXCEPT !.enc_ide = anonymize_enc(row.Fall)]

\* PatientIdHandler that keeps the id as it is in the file
PatientIdHandler_raw(d, row) ==
    [d EXCEPT !.pat_ide = row.Patient]

PatientIdHandler(d, row) ==
    [d EXCEPT !.pat_ide = anonymize_pat(row.Patient)]

BirthDateHandler(d, row) ==
    set_or_raise(d, "birth_date", s_convert_date_to_i2b2_format(row.Geburtsdatum))

\* int(val) of a text of digits
IsInt(val) == val # NaN /\ val # <<>> /\ AllDigits(val)

PatientAgeHandler(d, row) ==
    IF IsInt(row.Alter) /\ Num(row.Alter) > 0
    THEN [d EXCEPT !.age = Num(row.Alter)]
    ELSE NoPatientData

__sex_map(val) ==
    CASE val = "M" -> "M" [] val = "W" -> "F" [] val = "U" -> "X" [] OTHER -> NoneStr

PatientSexHandler(d, row) ==
    IF __sex_map(row.Geschlecht) = NoneStr THEN NoPatientData
    ELSE [d EXCEPT !.sex = __sex_map(row.Geschlecht)]

PatientAssessmentHandler(d, row) ==
    IF IsInt(row.PTS) /\ Num(row.PTS) \in 1..5
    THEN [d EXCEPT !.assessment = row.PTS]
    ELSE NoPatientData

PatientAssessmentDateHandler(d, row) ==
    set_or_raise(d, "assessment_date", s_convert_date_to_i2b2_format(row.TIMES_PRIO))

\* minutes, seconds = map(int, waiting_time.split(':')), as seconds;
\* NoneNum where that raises
waiting_seconds(parts) ==
    IF Len(parts) = 2 /\ \A i \in 1..Len(parts) : IsInt(parts[i])
    THEN Num(parts[1]) * 60 + Num(parts[2])
    ELSE NoneNum

\* assessment_date + time_delta, where neither raised
first_contact(assessment_date, seconds) ==
    IF assessment_date = NoDateTime \/ seconds = NoneNum THEN ValueError
    ELSE fmt_seconds(add_seconds(assessment_date, seconds))

FirstContactHandler(d, row) ==
    set_or_raise(d, "first_contact",
        first_contact(IF d.assessment_date = None THEN NoDateTime
                      ELSE strptime_minutes(d.assessment_date),
                      waiting_seconds(IF row.ErstkontaktArzt = NaN THEN <<>>
                                      ELSE split(row.ErstkontaktArzt, <<":">>))))

s_process_column(handler, d, row) ==
    CASE handler = "AdmissionDateHandler"         -> AdmissionDateHandler(d, row)
      [] handler = "EncounterIdHandler"           -> EncounterIdHandler(d, row)
      [] handler = "PatientIdHandler"             -> PatientIdHandler(d, row)
      [] handler = "BirthDateHandler"             -> BirthDateHandler(d, row)
      [] handler = "PatientAgeHandler"            -> PatientAgeHandler(d, row)
      [] handler = "PatientSexHandler"            -> PatientSexHandler(d, row)
      [] handler = "PatientAssessmentHandler"     -> PatientAssessmentHandler(d, row)
      [] handler = "PatientAssessmentDateHandler" -> PatientAssessmentDateHandler(d, row)
      [] handler = "FirstContactHandler"          -> FirstContactHandler(d, row)

\* a chain in which FirstContactHandler comes before
\* PatientAssessmentDateHandler
s_successor_swapped ==
    [h \in {"AdmissionDateHandler", "EncounterIdHandler", "PatientIdHandler",
            "BirthDateHandler", "PatientAgeHandler", "PatientSexHandler",
            "PatientAssessmentHandler", "PatientAssessmentDateHandler",
            "FirstContactHandler"} |->
        CASE h = "PatientAssessmentDateHandler" -> "None"
          [] h = "FirstContactHandler"          -> "PatientAssessmentDateHandler"
          [] h = "PatientAssessmentHandler"     -> "FirstContactHandler"
          [] h = "PatientSexHandler"            -> "PatientAssessmentHandler"
          [] h = "PatientAgeHandler"            -> "PatientSexHandler"
          [] h = "BirthDateHandler"             -> "PatientAgeHandler"
          [] h = "PatientIdHandler"             -> "BirthDateHandler"
          [] h = "EncounterIdHandler"           -> "PatientIdHandler"
          [] h = "AdmissionDateHandler"         -> "EncounterIdHandler"]

\* AktinImporter.__init_pipeline of the simple importer
s_successor ==
    [h \in {"AdmissionDateHandler", "EncounterIdHandler", "PatientIdHandler",
            "BirthDateHandler", "PatientAgeHandler", "PatientSexHandler",
            "PatientAssessmentHandler", "PatientAssessmentDateHandler",
            "FirstContactHandler"} |->
        CASE h = "FirstContactHandler"          -> "None"
          [] h = "PatientAssessmentDateHandler" -> "FirstContactHandler"
          [] h = "PatientAssessmentHandler"     -> "PatientAssessmentDateHandler"
          [] h = "PatientSexHandler"            -> "PatientAssessmentHandler"
          [] h = "PatientAgeHandler"            -> "PatientSexHandler"
          [] h = "BirthDateHandler"             -> "PatientAgeHandler"
          [] h = "PatientIdHandler"             -> "BirthDateHandler"
          [] h = "EncounterIdHandler"           -> "PatientIdHandler"
          [] h = "AdmissionDateHandler"         -> "EncounterIdHandler"]
s_init_pipeline == "AdmissionDateHandler"

\* PatientDataColumnHandler.update_pat_from_row of the simple importer: an
\* exception of the handler, or None from the successor, yields None
RECURSIVE s_update_pat_from_row(_, _, _)
s_update_pat_from_row(handler, d, row) ==
    LET d2 == s_process_column(handler, d, row)
    IN  IF d2 = NoPatientData THEN NoPatientData
        ELSE IF s_successor[handler] # "None"
             THEN s_update_pat_from_row(s_successor[handler], d2, row)
             ELSE d2

\* the calls of _process_column that update_pat_from_row makes for a row, in
\* order, each with whether it raised
RECURSIVE s_chain_calls(_, _, _)
s_chain_calls(handler, d, row) ==
    IF s_process_column(handler, d, row) = NoPatientData
    THEN <<[handler |-> handler, raised |-> TRUE]>>
    ELSE <<[handler |-> handler, raised |-> FALSE]>>
         \o (IF s_successor[handler] # "None"
             THEN s_chain_calls(s_successor[handler], s_process_column(handler, d, row), row)
             ELSE <<>>)

(***************************************************************************)
(* Simple importer: the CSV files and the warehouse before the run         *)
(***************************************************************************)
D8   == <<"1", "9", "8", "0", "0", "2", "2", "9">>
D14  == <<"2", "0", "2", "4", "0", "1", "1", "5", "1", "0", "3", "0", "0", "0">>
D24  == <<"2", "0", "2", "4", "0", "1", "1", "5", "2", "4", "0", "0">>
Wait == <<"0", "5", ":", "3", "0">>

SimpleRow(adm, enc, pat, birth, age, sex, pts, prio, first) ==
    [AUFNAHME_DATUM |-> adm, Fall |-> enc, Patient |-> pat, Geburtsdatum |-> birth,
     Alter |-> age, Geschlecht |-> sex, PTS |-> pts, TIMES_PRIO |-> prio,
     ErstkontaktArzt |-> first]

\* rows of three encounters
EncounterRows ==
    { SimpleRow(D12, "E1", "P1", D8, <<"4", "3">>, "M", <<"3">>, D12, Wait),
      SimpleRow(D12, "E4", "P1", D8, <<"4", "3">>, "M", <<"2">>, D24, Wait),   \* same patient
      SimpleRow(D14, "E5", "P5", D8, <<"7">>, "W", <<"1">>, D12, Wait) }

SimpleRows ==
    EncounterRows \cup
    { SimpleRow(D12, "E6", "P6", D8, <<"0">>, "U", <<"1">>, D12, Wait),        \* age 0
      SimpleRow(D12, "E6", "P6", D8, <<"7">>, "U", <<"1">>, D14, Wait),        \* assessed to the second
      SimpleRow(D12, "E6", "P6", D8, <<"7">>, "U", <<"1">>, D12, NaN) }        \* no waiting time

\* the files of up to MaxRows rows, and the files of one row more whose rows
\* are of different encounters
SimpleFiles ==
    UNION {[1..n -> SimpleRows] : n \in 0..MaxRows} \cup
    {f \in [1..(MaxRows + 1) -> EncounterRows] :
        \A i \in DOMAIN f : \A j \in DOMAIN f : f[i].Fall = f[j].Fall => i = j}

InitPatientDimension ==
    { [patient_num |-> 1, birth_date |-> strftime(strptime_digits(D8, 8), 8), sex_cd |-> "M",
       age_in_years_num |-> 43] }
InitVisitDimension ==
    { [encounter_num |-> 1, patient_num |-> 1, start_date |-> DPrev] }

MaxNum(S) == IF S = {} THEN 0 ELSE CHOOSE n \in S : \A k \in S : k <= n

\* PatientMappingEntryHandler.__get_max_pat_num
__get_max_pat_num == MaxNum({m.patient_num : m \in patient_mapping})
\* EncounterMappingEntryHandler.__get_max_enc_num
__get_max_enc_num == MaxNum({m.encounter_num : m \in encounter_mapping})

InitSimple ==
    /\ \E prior \in BOOLEAN :
          /\ patient_mapping = IF prior THEN InitPatientMapping ELSE {}
          /\ encounter_mapping = IF prior THEN InitEncounterMapping ELSE {}
          /\ patient_dimension = IF prior THEN InitPatientDimension ELSE {}
          /\ visit_dimension = IF prior THEN InitVisitDimension ELSE {}
          /\ observation_fact = IF prior
                                THEN SetToBag({PriorFact(1, 1, <<"ESI", ":", "3">>, uuid)})
                                ELSE EmptyBag
    /\ committed_fact = observation_fact
    /\ csv = <<>> /\ pc = "idle" /\ index = NoIndex /\ data = DiagnoseData
    /\ enc_num = NoneNum /\ pat_num = NoneNum
    /\ todo = <<>> /\ imported_num = 0
    /\ logger = NewLogger /\ error = "" /\ run = 1
    /\ s_csv \in SimpleFiles
    /\ s_pc = "init" /\ s_index = NoIndex /\ s_data = NoPatientData
    /\ s_pat_num = NoneNum /\ s_enc_num = NoneNum
    /\ hw_pat_num = __get_max_pat_num
    /\ hw_enc_num = __get_max_enc_num
    /\ HelperIdle
    /\ failures = 0 /\ reads = 0
    /\ hist = NewHist(observation_fact)

(***************************************************************************)
(* Simple importer: AktinImporter.import_csv and the table handlers        *)
(***************************************************************************)
\* TableEntryHandler._upload_table_entry either inserts the entry or, when
\* the INSERT fails, rolls its own transaction back, prints and returns
s_CanFail == failures < MaxUploadFailures

UploadOutcomes == {TRUE} \cup (IF s_CanFail THEN {FALSE} ELSE {})

\* an upload that leaves only the new entry in the table
_upload_table_entry_replacing(table, entry, ok) ==
    IF ok THEN {entry} ELSE table

\* TableEntryHandler._upload_table_entry: the table after the INSERT, or
\* after its rollback
_upload_table_entry(table, entry, ok) ==
    IF ok THEN table \cup {entry} ELSE table

Failed(ok) == IF ok THEN 0 ELSE 1

\* PatientMappingEntryHandler.__get_patient_num_for_ide
__get_patient_num_for_ide(pat_ide) == get_patient_num_for_ide(pat_ide)
\* EncounterMappingEntryHandler.__get_encounter_num_for_ide
__get_encounter_num_for_ide(enc_ide) == get_encounter_num_for_ide(enc_ide)

\* AktinImporter.__init__ of the simple importer: the handlers of the
\* pipeline construct the Helper, which exits when the properties file is
\* not there
s_AktinImporter_init ==
    /\ s_pc = "init"
    /\ \E outcome \in {"", "SystemExit"} :
          /\ error' = outcome
          /\ s_pc' = IF outcome = "" THEN "connect" ELSE "fatal"
    /\ UNCHANGED <<tables, csv, pc, index, data, enc_num, pat_num, todo, imported_num,
                   logger, run, s_csv, s_index, s_data, s_pat_num, s_enc_num, hw_pat_num,
                   hw_enc_num, obsVars>>
    /\ UNCHANGED funVars

\* import_csv of the simple importer up to its loop: DatabaseConnection()
\* reads the credentials from the environment, the five table handlers
\* reflect their tables and the two mapping handlers read their high-water
\* marks
s_import_csv_connect ==
    /\ s_pc = "connect"
    /\ \E outcome \in {"", "KeyError", "OperationalError", "NoSuchTableError"} :
          /\ error' = outcome
          /\ s_pc' = IF outcome = "" THEN "loop" ELSE "fatal"
          /\ IF outcome = ""
             THEN /\ hw_pat_num' = __get_max_pat_num
                  /\ hw_enc_num' = __get_max_enc_num
             ELSE UNCHANGED <<hw_pat_num, hw_enc_num>>
    /\ UNCHANGED <<tables, csv, pc, index, data, enc_num, pat_num, todo, imported_num,
                   logger, run, s_csv, s_index, s_data, s_pat_num, s_enc_num, obsVars>>
    /\ UNCHANGED funVars

\* the loop head with "if data:" left out: the table handlers are called
\* whatever the chain returned
s_import_csv_row_unchecked ==
    /\ s_pc = "loop" /\ s_index + 1 < Len(s_csv)
    /\ s_index' = s_index + 1
    /\ s_data' = s_update_pat_from_row(s_init_pipeline, PatientData(s_index + 3),
                                       s_csv[s_index + 2])
    /\ s_pc' = "pat_map"
    /\ hist' = [hist EXCEPT !.chain = s_chain_calls(s_init_pipeline,
                                                    PatientData(s_index + 3),
                                                    s_csv[s_index + 2])]
    /\ UNCHANGED <<tables, anacVars, s_csv, s_pat_num, s_enc_num, hw_pat_num, hw_enc_num,
                   failures, reads>>
    /\ UNCHANGED funVars

\* the loop head: next row through the chain
s_import_csv_row ==
    /\ s_pc = "loop" /\ s_index + 1 < Len(s_csv)
    /\ s_index' = s_index + 1
    /\ s_data' = s_update_pat_from_row(s_init_pipeline, PatientData(s_index + 3),
                                       s_csv[s_index + 2])
    /\ s_pc' = IF s_data' # NoPatientData THEN "pat_map" ELSE "loop"
    /\ hist' = [hist EXCEPT !.chain = s_chain_calls(s_init_pipeline,
                                                    PatientData(s_index + 3),
                                                    s_csv[s_index + 2])]
    /\ UNCHANGED <<tables, anacVars, s_csv, s_pat_num, s_enc_num, hw_pat_num, hw_enc_num,
                   failures, reads>>
    /\ UNCHANGED funVars

PatientMapping_create_new_entry ==
    /\ s_pc = "pat_map"
    /\ LET pat_ide == s_data.pat_ide
           found   == __get_patient_num_for_ide(pat_ide)
       IN  IF found # NoneNum
           THEN /\ s_pat_num' = found
                /\ hist' = [hist EXCEPT !.returned = @ \cup {<<"patient", pat_ide, found>>}]
                /\ UNCHANGED <<hw_pat_num, patient_mapping, failures>>
           ELSE \E ok \in UploadOutcomes :
                /\ hw_pat_num' = hw_pat_num + 1
                /\ s_pat_num' = hw_pat_num + 1
                /\ patient_mapping' =
                      _upload_table_entry(patient_mapping,
                          [patient_ide |-> pat_ide, patient_num |-> hw_pat_num + 1], ok)
                /\ failures' = failures + Failed(ok)
                /\ hist' = [hist EXCEPT !.returned =
                               @ \cup {<<"patient", pat_ide, hw_pat_num + 1>>},
                                        !.allocated =
                               Append(@, <<"patient", pat_ide, hw_pat_num + 1>>)]
    /\ reads' = reads + 1
    /\ s_pc' = "pat_dim"
    /\ UNCHANGED <<encounter_mapping, patient_dimension, visit_dimension, observation_fact,
                   committed_fact, anacVars, s_csv, s_index, s_data, s_enc_num, hw_enc_num>>
    /\ UNCHANGED funVars

PatientDimension_create_new_entry ==
    /\ s_pc = "pat_dim"
    /\ IF \E r \in patient_dimension : r.patient_num = s_pat_num
       THEN UNCHANGED <<patient_dimension, failures>>
       ELSE \E ok \in UploadOutcomes :
            /\ patient_dimension' =
                  _upload_table_entry(patient_dimension,
                      [patient_num |-> s_pat_num, birth_date |-> s_data.birth_date,
                       sex_cd |-> s_data.sex, age_in_years_num |-> s_data.age], ok)
            /\ failures' = failures + Failed(ok)
    /\ reads' = reads + 1
    /\ s_pc' = "enc_map"
    /\ UNCHANGED <<patient_mapping, encounter_mapping, visit_dimension, observation_fact,
                   committed_fact, anacVars, s_csv, s_index, s_data, s_pat_num, s_enc_num,
                   hw_pat_num, hw_enc_num, hist>>
    /\ UNCHANGED funVars

EncounterMapping_create_new_entry ==
    /\ s_pc = "enc_map"
    /\ LET enc_ide == s_data.enc_ide
           found   == __get_encounter_num_for_ide(enc_ide)
       IN  IF found # NoneNum
           THEN /\ s_enc_num' = found
                /\ hist' = [hist EXCEPT !.returned = @ \cup {<<"encounter", enc_ide, found>>}]
                /\ UNCHANGED <<hw_enc_num, encounter_mapping, failures>>
           ELSE \E ok \in UploadOutcomes :
                /\ hw_enc_num' = hw_enc_num + 1
                /\ s_enc_num' = hw_enc_num + 1
                /\ encounter_mapping' =
                      _upload_table_entry(encounter_mapping,
                          [encounter_ide |-> enc_ide, encounter_num |-> hw_enc_num + 1,
                           patient_ide |-> s_data.pat_ide], ok)
                /\ failures' = failures + Failed(ok)
                /\ hist' = [hist EXCEPT !.returned =
                               @ \cup {<<"encounter", enc_ide, hw_enc_num + 1>>},
                                        !.allocated =
                               Append(@, <<"encounter", enc_ide, hw_enc_num + 1>>)]
    /\ reads' = reads + 1
    /\ s_pc' = "vis_dim"
    /\ UNCHANGED <<patient_mapping, patient_dimension, visit_dimension, observation_fact,
                   committed_fact, anacVars, s_csv, s_index, s_data, s_pat_num, hw_pat_num>>
    /\ UNCHANGED funVars

VisitDimension_create_new_entry ==
    /\ s_pc = "vis_dim"
    /\ IF \E r \in visit_dimension : r.encounter_num = s_enc_num
       THEN UNCHANGED <<visit_dimension, failures>>
       ELSE \E ok \in UploadOutcomes :
            /\ visit_dimension' =
                  _upload_table_entry(visit_dimension,
                      [encounter_num |-> s_enc_num, patient_num |-> s_pat_num,
                       start_date |-> s_data.admission_date], ok)
            /\ failures' = failures + Failed(ok)
    /\ reads' = reads + 1
    /\ s_pc' = "obs"
    /\ UNCHANGED <<patient_mapping, encounter_mapping, patient_dimension, observation_fact,
                   committed_fact, anacVars, s_csv, s_index, s_data, s_pat_num, s_enc_num,
                   hw_pat_num, hw_enc_num, hist>>
    /\ UNCHANGED funVars

s_fact_row(enc, pat, concept, start_date, import_date) ==
    [encounter_num |-> enc, patient_num |-> pat, concept_cd |-> concept,
     sourcesystem_cd |-> uuid, import_date |-> import_date, start_date |-> start_date]

\* __upload_assessment_entry and __upload_physencounter_entry: the two rows of
\* an encounter
assessment_entry(enc, pat, d, import_date) ==
    s_fact_row(enc, pat, <<"ESI", ":">> \o d.assessment, d.assessment_date, import_date)
physencounter_entry(enc, pat, d, import_date) ==
    s_fact_row(enc, pat, <<"AKTIN:PHYSENCOUNTER">>, d.first_contact, import_date)

\* __check_if_enc_num_exists that finds no encounter
__check_if_enc_num_exists_never(fact, enc) == FALSE

\* ObservationFactEntryHandler.__check_if_enc_num_exists of the simple
\* importer
__check_if_enc_num_exists(fact, enc) ==
    \E r \in DOMAIN fact : r.encounter_num = enc

\* ObservationFactEntryHandler.create_new_entries of the simple importer
create_new_entries ==
    /\ s_pc = "obs"
    /\ IF __check_if_enc_num_exists(observation_fact, s_enc_num)
       THEN UNCHANGED <<observation_fact, failures>>
       ELSE \E ok1 \in UploadOutcomes : \E ok2 \in UploadOutcomes :
            LET assessment == assessment_entry(s_enc_num, s_pat_num, s_data, run)
                physencounter == physencounter_entry(s_enc_num, s_pat_num, s_data, run)
            IN  /\ failures + Failed(ok1) + Failed(ok2) <= MaxUploadFailures
                /\ observation_fact' =
                      observation_fact (+) (IF ok1 THEN SetToBag({assessment}) ELSE EmptyBag)
                                       (+) (IF ok2 THEN SetToBag({physencounter}) ELSE EmptyBag)
                /\ failures' = failures + Failed(ok1) + Failed(ok2)
    /\ reads' = reads + 1
    /\ s_pc' = "loop"
    /\ UNCHANGED <<patient_mapping, encounter_mapping, patient_dimension, visit_dimension,
                   committed_fact, anacVars, s_csv, s_index, s_data, s_pat_num, s_enc_num,
                   hw_pat_num, hw_enc_num, hist>>
    /\ UNCHANGED funVars

\* a SELECT of one of the five handlers fails: nothing catches the exception
s_select_fails ==
    /\ s_pc \in {"pat_map", "pat_dim", "enc_map", "vis_dim", "obs"}
    /\ s_CanFail
    /\ failures' = failures + 1
    /\ reads' = reads + 1
    /\ s_pc' = "aborted"
    /\ UNCHANGED <<tables, anacVars, s_csv, s_index, s_data, s_pat_num, s_enc_num,
                   hw_pat_num, hw_enc_num, hist>>
    /\ UNCHANGED funVars

\* the loop ends
s_import_csv_end ==
    /\ s_pc = "loop" /\ s_index + 1 = Len(s_csv)
    /\ s_pc' = "done"
    /\ UNCHANGED <<tables, anacVars, s_csv, s_index, s_data, s_pat_num, s_enc_num,
                   hw_pat_num, hw_enc_num, obsVars>>
    /\ UNCHANGED funVars

\* the importer is started again on the same file: new process, the
\* high-water marks are read from the mapping tables again
s_import_csv_again ==
    /\ s_pc \in {"done", "aborted"} /\ run < MaxRuns
    /\ run' = run + 1
    /\ s_pc' = "init" /\ s_index' = NoIndex /\ s_data' = NoPatientData
    /\ s_pat_num' = NoneNum /\ s_enc_num' = NoneNum
    /\ hw_pat_num' = __get_max_pat_num
    /\ hw_enc_num' = __get_max_enc_num
    /\ hist' = [hist EXCEPT !.first_failures = IF run = 1 THEN failures ELSE @,
                            !.chain = <<>>,
                            !.startup_nums =
                                [patient   |-> {m.patient_num : m \in patient_mapping},
                                 encounter |-> {m.encounter_num : m \in encounter_mapping}],
                            !.allocated = <<>>]
    /\ UNCHANGED <<tables, csv, pc, index, data, enc_num, pat_num, todo, imported_num,
                   logger, error, s_csv, failures, reads>>
    /\ UNCHANGED funVars

NextSimple ==
    \/ s_AktinImporter_init
    \/ s_import_csv_connect
    \/ s_import_csv_row
    \/ PatientMapping_create_new_entry
    \/ PatientDimension_create_new_entry
    \/ EncounterMapping_create_new_entry
    \/ VisitDimension_create_new_entry
    \/ create_new_entries
    \/ s_select_fails
    \/ s_import_csv_end
    \/ s_import_csv_again

SpecSimple == InitSimple /\ [][NextSimple]_vars

(***************************************************************************)
(* Properties of the simple importer's identity resolver                   *)
(***************************************************************************)
Recorded(t) ==
    IF t[1] = "patient"
    THEN \E m \in patient_mapping : m.patient_ide = t[2] /\ m.patient_num = t[3]
    ELSE \E m \in encounter_mapping : m.encounter_ide = t[2] /\ m.encounter_num = t[3]

\* C5: every surrogate that create_new_entry has returned for an opaque id
\* is persisted with that id in the mapping table.
C5_NoUnrecordedSurrogate ==
    \A t \in hist.returned : Recorded(t)

\* C6: the calls of create_new_entry for one opaque id all returned the same
\* surrogate, so the high-water mark was raised at most once for that id.
C6_SameSurrogatePerId ==
    \A t1 \in hist.returned : \A t2 \in hist.returned :
        (t1[1] = t2[1] /\ t1[2] = t2[2]) => t1[3] = t2[3]

(***************************************************************************)
(* Properties of the simple importer's chain                               *)
(***************************************************************************)
s_chain_order == <<"AdmissionDateHandler", "EncounterIdHandler", "PatientIdHandler",
                   "BirthDateHandler", "PatientAgeHandler", "PatientSexHandler",
                   "PatientAssessmentHandler", "PatientAssessmentDateHandler",
                   "FirstContactHandler">>

\* C11: the handlers process a row in chain order; when one of them raises it
\* is the last to process the row, the chain yields no record, the step
\* writes no table and the importer goes on to the next row, so that no
\* table handler ever runs for a row without a record.
C11_HandlerFailureDiscardsRow ==
    [][(s_pc = "loop" /\ s_index + 1 < Len(s_csv)) =>
          /\ \A k \in 1..Len(hist'.chain) :
                /\ hist'.chain[k].handler = s_chain_order[k]
                /\ hist'.chain[k].raised =>
                      /\ k = Len(hist'.chain)
                      /\ s_data' = NoPatientData
                      /\ s_pc' = "loop"
                      /\ UNCHANGED tables
          /\ s_csv[s_index + 2].Alter = <<"0">> =>
                /\ Len(hist'.chain) = 5
                /\ hist'.chain[5].raised
          /\ s_data' = NoPatientData => hist'.chain[Len(hist'.chain)].raised]_vars

\* C11 witness: the age handler, fifth of nine, raised for a row; the
\* importer is through with the file and no table has changed.
C11_Witness ==
    /\ s_pc = "done" /\ s_index # NoIndex
    /\ Len(hist.chain) = 5 /\ hist.chain[5].raised
    /\ s_data = NoPatientData
    /\ patient_mapping = {} /\ encounter_mapping = {} /\ patient_dimension = {}
    /\ visit_dimension = {} /\ observation_fact = EmptyBag

(***************************************************************************)
(* The simple importer's run over a file when no statement fails, as a     *)
(* function of the tables it starts from                                   *)
(***************************************************************************)
\* create_new_entry of a mapping handler: the surrogate found for the id, or
\* the high-water mark plus one
s_resolve(found, high_water) == IF found # NoneNum THEN found ELSE high_water + 1

s_patient_num_in(mapping, pat_ide) ==
    IF \E m \in mapping : m.patient_ide = pat_ide
    THEN (CHOOSE m \in mapping : m.patient_ide = pat_ide).patient_num
    ELSE NoneNum

s_encounter_num_in(mapping, enc_ide) ==
    IF \E m \in mapping : m.encounter_ide = enc_ide
    THEN (CHOOSE m \in mapping : m.encounter_ide = enc_ide).encounter_num
    ELSE NoneNum

\* the loop body of import_csv for a record d with its surrogates pat and enc
s_clean_row(w, d, pat, enc) ==
    [patient_mapping |-> w.patient_mapping
                            \cup {[patient_ide |-> d.pat_ide, patient_num |-> pat]},
     encounter_mapping |-> w.encounter_mapping
                              \cup {[encounter_ide |-> d.enc_ide, encounter_num |-> enc,
                                     patient_ide |-> d.pat_ide]},
     observation_fact |->
         IF \E r \in DOMAIN w.observation_fact : r.encounter_num = enc
         THEN w.observation_fact
         ELSE w.observation_fact (+) SetToBag({assessment_entry(enc, pat, d, 1)})
                                 (+) SetToBag({physencounter_entry(enc, pat, d, 1)}),
     hw_pat_num |-> IF pat > w.hw_pat_num THEN pat ELSE w.hw_pat_num,
     hw_enc_num |-> IF enc > w.hw_enc_num THEN enc ELSE w.hw_enc_num]

s_clean_record(w, d) ==
    IF d = NoPatientData THEN w
    ELSE s_clean_row(w, d,
                     s_resolve(s_patient_num_in(w.patient_mapping, d.pat_ide), w.hw_pat_num),
                     s_resolve(s_encounter_num_in(w.encounter_mapping, d.enc_ide),
                               w.hw_enc_num))

\* the loop of import_csv from row i on
RECURSIVE s_clean_run(_, _, _)
s_clean_run(w, rows, i) ==
    IF i > Len(rows) THEN w
    ELSE s_clean_run(s_clean_record(w, s_update_pat_from_row(s_init_pipeline,
                                                             PatientData(i + 1), rows[i])),
                     rows, i + 1)

\* the tables before the first run, with the high-water marks read from them
s_start ==
    [patient_mapping |-> hist.init_patient_mapping,
     encounter_mapping |-> hist.init_encounter_mapping,
     observation_fact |-> hist.init_fact,
     hw_pat_num |-> MaxNum({m.patient_num : m \in hist.init_patient_mapping}),
     hw_enc_num |-> MaxNum({m.encounter_num : m \in hist.init_encounter_mapping})]

\* C13: when statements failed in the first run over a file and none fails
\* in the second run over the same file, the fact rows at the end of the
\* second run are, import timestamp aside, those of a single run without
\* failures.
C13_RerunIsSafeRetry ==
    (s_pc = "done" /\ run = 2 /\ hist.first_failures > 0 /\ failures = hist.first_failures)
        => StripBag(observation_fact) = StripBag(s_clean_run(s_start, s_csv, 1).observation_fact)

\* a single run without failures ends with the fact rows of s_clean_run
S_CleanRunIsReference ==
    (s_pc = "done" /\ run = 1 /\ failures = 0)
        => StripBag(observation_fact) = StripBag(s_clean_run(s_start, s_csv, 1).observation_fact)

(***************************************************************************)
(* Properties of the simple importer's surrogate allocation                *)
(***************************************************************************)
\* a surrogate newly allocated in a run is greater than every surrogate of its
\* kind that was in the mapping table when the run started and than every
\* surrogate of its kind allocated earlier in the run
S_AllocationMonotonicInRun ==
    \A i \in 1..Len(hist.allocated) :
        /\ \A n \in hist.startup_nums[hist.allocated[i][1]] : hist.allocated[i][3] > n
        /\ \A j \in 1..(i - 1) :
              hist.allocated[j][1] = hist.allocated[i][1]
                  => hist.allocated[i][3] > hist.allocated[j][3]

\* C14: a surrogate newly allocated in a run is greater than every surrogate
\* of its kind that was in the mapping table when the run started and than
\* every surrogate of its kind allocated earlier in the run; and no surrogate
\* was ever returned for two different opaque ids of one kind.
C14_AllocationMonotonic ==
    /\ \A i \in 1..Len(hist.allocated) :
          /\ \A n \in hist.startup_nums[hist.allocated[i][1]] : hist.allocated[i][3] > n
          /\ \A j \in 1..(i - 1) :
                hist.allocated[j][1] = hist.allocated[i][1]
                    => hist.allocated[i][3] > hist.allocated[j][3]
    /\ \A t1 \in hist.returned : \A t2 \in hist.returned :
          (t1[1] = t2[1] /\ t1[2] # t2[2]) => t1[3] # t2[3]

(***************************************************************************)
(* Properties of what the simple importer stores                           *)
(***************************************************************************)
\* the patient and encounter ids as they are in the file
RawIdsInFile ==
    {s_csv[i].Patient : i \in 1..Len(s_csv)} \cup {s_csv[i].Fall : i \in 1..Len(s_csv)}

\* the opaque ids of the file's patients and of its encounters
PatientDigests ==
    {hash_composite(pseudonym_salt \o pat_root \o "/" \o s_csv[i].Patient) :
        i \in 1..Len(s_csv)}
EncounterDigests ==
    {hash_composite(pseudonym_salt \o enc_root \o "/" \o s_csv[i].Fall) :
        i \in 1..Len(s_csv)}

\* C18: no id column of a mapping row holds an id as it is in the file, the
\* rows the importer added to the mapping tables hold the digests of ids of
\* the file, and the rows of the dimension and fact tables have no id column
\* besides the surrogates.
C18_NoRawIdStored ==
    /\ \A m \in patient_mapping :
          /\ m.patient_ide \notin RawIdsInFile
          /\ m \notin hist.init_patient_mapping => m.patient_ide \in PatientDigests
    /\ \A m \in encounter_mapping :
          /\ m.encounter_ide \notin RawIdsInFile
          /\ m.patient_ide \notin RawIdsInFile
          /\ m \notin hist.init_encounter_mapping =>
                /\ m.encounter_ide \in EncounterDigests
                /\ m.patient_ide \in PatientDigests
    /\ \A r \in patient_dimension :
          /\ DOMAIN r = {"patient_num", "birth_date", "sex_cd", "age_in_years_num"}
          /\ r.sex_cd \in {"M", "F", "X"}
    /\ \A r \in visit_dimension :
          DOMAIN r = {"encounter_num", "patient_num", "start_date"}
    /\ \A r \in DOMAIN observation_fact :
          DOMAIN r = {"encounter_num", "patient_num", "concept_cd", "sourcesystem_cd",
                      "import_date", "start_date"}

\* C18 witness: a run has added a row to each of the five tables.
C18_Witness ==
    /\ s_pc = "done"
    /\ patient_mapping # hist.init_patient_mapping
    /\ encounter_mapping # hist.init_encounter_mapping
    /\ patient_dimension # {} /\ visit_dimension # {}
    /\ observation_fact # hist.init_fact

(***************************************************************************)
(* Properties of the start of a run                                        *)
(***************************************************************************)
FatalErrors == {"SystemExit", "KeyError", "OperationalError", "NoSuchTableError"}

\* C15: a missing properties file, an absent credential variable and a
\* database that cannot be reached or reflected are met before the loop has
\* read a row, end the run there and leave every table as it was; nothing
\* follows in that run.
C15_FatalErrorsAbortBeforeRows ==
    [][/\ (pc \in {"init", "connect"} /\ error' \in FatalErrors) =>
             /\ pc' = "fatal"
             /\ index = NoIndex /\ index' = NoIndex
             /\ logger' = NewLogger
             /\ UNCHANGED tables
       /\ pc = "fatal" => pc' = "fatal"
       /\ (pc \in {"loop", "remove", "insert"}) => error' \notin FatalErrors]_vars

\* C15 witness: a run has ended at its start because the database could not
\* be reached, with a file of rows that a run would have reconciled.
C15_Witness ==
    /\ pc = "fatal" /\ error = "OperationalError" /\ run = 1
    /\ csv = <<AnacRow("E1", "P1", D12, A01B02, None)>>
    /\ __check_if_observation_exists(observation_fact, 1)
    /\ observation_fact = hist.init_fact
    /\ reads = 0

\* the same for the simple importer
S_FatalErrorsAbortBeforeRows ==
    [][/\ (s_pc \in {"init", "connect"} /\ error' \in FatalErrors) =>
             /\ s_pc' = "fatal"
             /\ s_index = NoIndex /\ s_index' = NoIndex
             /\ UNCHANGED tables
       /\ s_pc = "fatal" => s_pc' = "fatal"]_vars

(***************************************************************************)
(* Properties of the diagnosis importer's summary                          *)
(***************************************************************************)
\* C16: when a reconciliation's DELETE has succeeded, the number of rows it
\* removed has been added to the updated count; and the summary's number of
\* new diagnoses is the sum, over the run's reconciliations, of the rows each
\* inserted beyond the number it deleted (stated for runs in which no
\* statement failed).
C16_UpdateNewTally ==
    failures = 0 =>
        /\ (pc = "insert" /\ hist.deleted # NoneNum) => davon_update >= hist.deleted
        /\ pc = "done" => davon_neu = hist.new_beyond

(***************************************************************************)
(* The Helper's functions called on their own                              *)
(***************************************************************************)
\* neither importer runs and the warehouse is empty
NoImport ==
    /\ patient_mapping = {} /\ encounter_mapping = {}
    /\ patient_dimension = {} /\ visit_dimension = {}
    /\ observation_fact = EmptyBag /\ committed_fact = EmptyBag
    /\ csv = <<>> /\ pc = "idle" /\ index = NoIndex /\ data = DiagnoseData
    /\ enc_num = NoneNum /\ pat_num = NoneNum
    /\ todo = <<>> /\ imported_num = 0
    /\ logger = NewLogger /\ error = "" /\ run = 1
    /\ SimpleIdle
    /\ failures = 0 /\ reads = 0
    /\ hist = NewHist(EmptyBag)

Salts  == {"", "s", "t", "st"}      \* values of pseudonym.salt
Roots  == {pat_root, enc_root}
RawIds == {"P1", "P2", "1"}

\* two Helpers, configured with a salt each, and one raw id under one root
InitPseudonym ==
    /\ NoImport
    /\ arg \in [salt : Salts, other_salt : Salts, root : Roots, ext : RawIds]
    /\ result = <<>>

\* a call of anonymize_pat or anonymize_enc on one of the two Helpers
anonymize_call ==
    /\ Len(result) < MaxCalls
    /\ \E salt \in {arg.salt, arg.other_salt} :
          result' = Append(result, [salt |-> salt,
                                    id |-> anonymize_id(salt, arg.root, arg.ext)])
    /\ UNCHANGED <<tables, anacVars, simpVars, obsVars, arg>>

NextPseudonym == anonymize_call

SpecPseudonym == InitPseudonym /\ [][NextPseudonym]_vars

\* C17: every call hashes salt + root + "/" + raw id (an empty salt adds
\* nothing); calls with the same salt return the same opaque id and calls
\* with different salts return different opaque ids.
C17_PseudonymDeterministicSalted ==
    \A i \in 1..Len(result) : \A j \in 1..Len(result) :
        /\ result[i].id = hash_composite(result[i].salt \o arg.root \o "/" \o arg.ext)
        /\ result[i].salt = "" => result[i].id = hash_composite(arg.root \o "/" \o arg.ext)
        /\ result[i].salt = result[j].salt => result[i].id = result[j].id
        /\ result[i].salt # result[j].salt => result[i].id # result[j].id

\* C17 witness: one raw id has been pseudonymized under one root by a Helper
\* without salt and by a Helper with the salt "s", with different results.
C17_Witness ==
    /\ Len(result) = 2
    /\ arg.salt = "" /\ arg.other_salt = "s"
    /\ result[1].salt # result[2].salt
    /\ result[1].id # result[2].id

(***************************************************************************)
(* Helper.convert_date_to_i2b2_format called on its own                    *)
(***************************************************************************)
\* a point in time, the way it is written and the number of characters
\* that are passed
DateArgs ==
    LET Years   == {<<"2", "0", "2", "4">>, <<"1", "9", "9", "9">>}
        Months  == {<<"0", "1">>, <<"0", "2">>, <<"1", "2">>}
        Days    == {<<"0", "1">>, <<"1", "5">>, <<"2", "8">>}
        Hours   == {<<"0", "0">>, <<"1", "0">>, <<"2", "3">>, <<"2", "4">>}
        Minutes == {<<"0", "0">>, <<"3", "0">>, <<"5", "9">>}
        Seconds == {<<"0", "0">>, <<"5", "9">>}
        Lengths == {0, 7, 8, 10, 12, 13, 14, 16, 19, 20}
    IN  {a \in [Y : Years, m : Months, d : Days, H : Hours, M : Minutes, S : Seconds,
                form : {"digits", "dotted", "iso"}, len : Lengths] :
            a.form = "digits" \/ a.len \in {16, 19}}

\* YYYY-MM-DD HH:mm:ss
iso_text(a) ==
    a.Y \o <<"-">> \o a.m \o <<"-">> \o a.d \o <<" ">>
        \o a.H \o <<":">> \o a.M \o <<":">> \o a.S

\* DD.MM.YYYY HH:mm:ss
dotted_text(a) ==
    a.d \o <<".">> \o a.m \o <<".">> \o a.Y \o <<" ">>
        \o a.H \o <<":">> \o a.M \o <<":">> \o a.S

\* YYYYMMDDHHmmss, followed by zeros
digits_text(a) ==
    a.Y \o a.m \o a.d \o a.H \o a.M \o a.S \o <<"0", "0", "0", "0", "0", "0">>

\* the text that is passed to convert_date_to_i2b2_format
date_text(a) ==
    SubSeq(CASE a.form = "digits" -> digits_text(a)
             [] a.form = "dotted" -> dotted_text(a)
             [] a.form = "iso"    -> iso_text(a),
           1, a.len)

InitDates ==
    /\ NoImport
    /\ arg \in DateArgs
    /\ result = <<>>

\* a call of convert_date_to_i2b2_format of each importer's Helper
convert_date_call ==
    /\ result = <<>>
    /\ result' = <<[anac   |-> convert_date_to_i2b2_format(date_text(arg)),
                    simple |-> s_convert_date_to_i2b2_format(date_text(arg))]>>
    /\ UNCHANGED <<tables, anacVars, simpVars, obsVars, arg>>

NextDates == convert_date_call

SpecDates == InitDates /\ [][NextDates]_vars

\* both Helpers returned x
Converted(x) == result[1].anac = x /\ result[1].simple = x

C20_Length19FallsBackToIso ==
    (result # <<>> /\ arg.len = 19 /\ arg.H # <<"2", "4">>) =>
        /\ arg.form = "dotted" => result[1].anac = iso_text(arg)
        /\ arg.form = "iso" => result[1].anac = iso_text(arg)

(***************************************************************************)
(* Both importers: what a run does to the tables it shares                 *)
(***************************************************************************)
InitImporters == InitAnac \/ InitSimple

NextImporters == NextAnac \/ NextSimple

\* a warehouse on which either the diagnosis importer or the simple
\* importer runs
SpecImporters == InitImporters /\ [][NextImporters]_vars

\* C21: no step of either importer removes or changes a row of
\* patient_mapping or encounter_mapping, and no step of the diagnosis
\* importer writes to them.
C21_MappingRowsKept ==
    [][/\ patient_mapping \subseteq patient_mapping'
       /\ encounter_mapping \subseteq encounter_mapping'
       /\ pc # "idle" => UNCHANGED <<patient_mapping, encounter_mapping>>]_vars

\* C21 witness: the simple importer has finished a run that inserted a row
\* into each mapping table, both of which had rows before the run.
C21_Witness ==
    /\ s_pc = "done" /\ failures = 0
    /\ hist.init_patient_mapping # {} /\ hist.init_encounter_mapping # {}
    /\ patient_mapping # hist.init_patient_mapping
    /\ encounter_mapping # hist.init_encounter_mapping

SameKey(B, r) ==
    BagFilter(B, LAMBDA q : /\ q.encounter_num = r.encounter_num
                            /\ q.concept_cd = r.concept_cd
                            /\ q.sourcesystem_cd = r.sourcesystem_cd)

\* C23: as long as no statement has failed, between two reconciliations and
\* at the end of the run the fact table holds at most one row per encounter
\* surrogate, concept code and source-system tag under this importer's tag.
C23_FactRowsUniquePerKey ==
    (failures = 0 /\ pc \in {"loop", "done"}) =>
        \A r \in DOMAIN observation_fact :
            OwnTag(r) => BagCardinality(SameKey(observation_fact, r)) <= 1

\* the Logger's counters when the summary is printed: rows seen, rejected
\* and matched
CountersConsistent ==
    /\ logger.csv_encounters = Len(csv)
    /\ logger.invalid_encounters <= logger.csv_encounters
    /\ logger.successful_insert <= logger.csv_encounters - logger.invalid_encounters

\* a run that printed its summary did so with consistent counters
N_SummaryCountersConsistent == pc = "done" => CountersConsistent

\* C24: a run in which no statement failed and that is past its loop has
\* printed the summary, with the rows-seen counter equal to the number of
\* data rows, rejected <= seen and matched <= seen - rejected.
C24_RunCountersConsistent ==
    (failures = 0 /\ pc \in {"done", "aborted"}) =>
        /\ pc = "done"
        /\ CountersConsistent

\* C25: at the end of a run in which no statement failed, the 'davon neu'
\* count of the summary, imported minus updated, is not negative.
C25_NewCountNotNegative ==
    (failures = 0 /\ pc = "done") => davon_neu >= 0

\* the fact rows that the current run inserted and that are in the table
InsertedByRun ==
    BagFilter(observation_fact, LAMBDA r : OwnTag(r) /\ r.import_date = run)

\* C26: at the end of a run the imported-diagnoses count is the number of
\* fact rows that the run inserted and that are in the fact table.
C26_ImportedCountMatchesTable ==
    pc = "done" => logger.new_imported = BagCardinality(InsertedByRun)

(***************************************************************************)
(* The simple importer's rows and the mapping tables                       *)
(***************************************************************************)
PatientMapped(n) == \E m \in patient_mapping : m.patient_num = n
EncounterMapped(n) == \E m \in encounter_mapping : m.encounter_num = n

\* C27: in every state of the warehouse, every row of patient_dimension,
\* visit_dimension and observation_fact carries a patient surrogate and an
\* encounter surrogate that a row of the mapping tables records.
C27_RowsReferenceMappedSurrogates ==
    /\ \A r \in patient_dimension : PatientMapped(r.patient_num)
    /\ \A r \in visit_dimension :
          PatientMapped(r.patient_num) /\ EncounterMapped(r.encounter_num)
    /\ \A r \in DOMAIN observation_fact :
          PatientMapped(r.patient_num) /\ EncounterMapped(r.encounter_num)

\* the same, as long as no statement has failed
S_RowsReferenceMappedSurrogates ==
    failures = 0 => C27_RowsReferenceMappedSurrogates

(***************************************************************************)
(* The simple importer writes by INSERT only                               *)
(***************************************************************************)
\* C28: no step of the simple importer removes or changes a row of a table;
\* a row it adds to patient_dimension or visit_dimension has a surrogate
\* that no row of the table had, and a row it adds to observation_fact is of
\* an encounter that had no fact row.
C28_InsertOnlyWhenAbsent ==
    [][/\ patient_mapping \subseteq patient_mapping'
       /\ encounter_mapping \subseteq encounter_mapping'
       /\ patient_dimension \subseteq patient_dimension'
       /\ visit_dimension \subseteq visit_dimension'
       /\ observation_fact \sqsubseteq observation_fact'
       /\ \A r \in patient_dimension' \ patient_dimension :
             \A q \in patient_dimension : q.patient_num # r.patient_num
       /\ \A r \in visit_dimension' \ visit_dimension :
             \A q \in visit_dimension : q.encounter_num # r.encounter_num
       /\ \A r \in DOMAIN observation_fact' :
             CopiesIn(r, observation_fact') > CopiesIn(r, observation_fact) =>
                 \A q \in DOMAIN observation_fact : q.encounter_num # r.encounter_num
      ]_vars

\* C28 witness: the warehouse had a fact row of encounter 1; a run over a file
\* with that encounter and with a new one has ended, the new encounter has
\* its two fact rows and encounter 1 has the fact row it had.
C28_Witness ==
    /\ s_pc = "done" /\ failures = 0
    /\ hist.init_fact # EmptyBag
    /\ \E i \in DOMAIN s_csv : s_csv[i].Fall = "E1"
    /\ BagFilter(observation_fact, LAMBDA r : r.encounter_num = 1) = hist.init_fact
    /\ BagCardinality(BagFilter(observation_fact, LAMBDA r : r.encounter_num # 1)) = 2

(***************************************************************************)
(* The diagnosis importer: the patient of an encounter's fact rows         *)
(***************************************************************************)
\* C29: as long as no statement has failed, between two reconciliations and
\* at the end of the run all fact rows of one encounter surrogate carry the
\* same patient surrogate.
C29_OnePatientPerEncounter ==
    (failures = 0 /\ pc \in {"loop", "done"}) =>
        \A r \in DOMAIN observation_fact : \A q \in DOMAIN observation_fact :
            r.encounter_num = q.encounter_num => r.patient_num = q.patient_num

(***************************************************************************)
(* The simple importer's chain: formats of the assessment timestamp        *)
(***************************************************************************)
\* map(int, waiting_time.split(':')) does not raise for the row
WaitingTimeValid(row) ==
    /\ row.ErstkontaktArzt # NaN
    /\ waiting_seconds(split(row.ErstkontaktArzt, <<":">>)) # NoneNum

\* C30: when FirstContactHandler has raised for a row, all eight handlers
\* before it, PatientAssessmentDateHandler among them, having accepted the
\* row, then the row's waiting time is one that cannot be parsed.
C30_AcceptedAssessmentDateAccepted ==
    (s_index # NoIndex /\ Len(hist.chain) = 9 /\ hist.chain[9].raised) =>
        ~WaitingTimeValid(s_csv[s_index + 1])

====
